---- MODULE Spec2Model ----
(***************************************************************************)
(* Chunked peer-to-peer file transfer of the Upload-Files repository.      *)
(*                                                                         *)
(* The repository holds three iterations of one React application:         *)
(*   src/unnamed/part_000  the ACK-gated design  (HEADER / ACK / CHUNK)    *)
(*   src/unnamed/part_001  the streaming design  (file-start /             *)
(*                         stream-chunk / file-end, with a debug log)      *)
(*   src/vantal-share/src/App.jsx  the single-shot design                  *)
(* One application instance plays the host (receiver), another one the     *)
(* sender.  The variable `design` says which iteration both run.           *)
(*                                                                         *)
(* Bytes are symbolic: the byte at position p of a source s is the pair    *)
(* (s, p), and a binary block is a range [src, lo, hi) of such bytes.      *)
(* A Blob is the normalised sequence of ranges of its bytes, so two Blobs  *)
(* are equal exactly when they hold the same bytes in the same order.      *)
(***************************************************************************)
EXTENDS Integers, Sequences, FiniteSets, TLC

\* ---------------------------------------------------------------- bounds
\* number of files the sender's user selects in one run
MaxSends == 2
\* number of messages a foreign (non-conforming) peer sends in one run
MaxForeign == 4
\* messages in flight on one connection, per direction
MaxInFlight == 2
\* number of acknowledgements a foreign host sends in one run
MaxAcks == 2

\* ------------------------------------------------------ program constants
CHUNK_SIZE == 16 * 1024
HIGH_WATER == 10 * 1024 * 1024

\* the two connections a host sees: "c1" is dialled by the sender
\* application, "c2" by a foreign peer (any program can dial a room name)
Conns == {"c1", "c2"}
AppConn == "c1"
ForeignConn == "c2"

\* values of Math.random().toString(36).substr(2, 9)
Ids == {"t1", "t2"}

\* sizes of the files the user may select
FileSizes == {0, CHUNK_SIZE, 40000}
FileOf(n) == [name |-> "a.txt", size |-> n, type |-> "text/plain"]
UserFiles == {FileOf(n) : n \in FileSizes}

\* what the transport may report as the channel's bufferedAmount
BufferedLevels == {HIGH_WATER, HIGH_WATER + 1}

\* --------------------------------------------------------- binary blocks
Range(s, lo, hi) == [src |-> s, lo |-> lo, hi |-> hi]
byteLength(ch) == ch.hi - ch.lo

Min(a, b) == IF a < b THEN a ELSE b

\* a slice that is not clamped to the end of the file
sliceUnclamped(file, start, end) == Range(file.name, start, end)

\* file.slice(start, end): the bytes [start, end) clamped to the file
slice(file, start, end) ==
  LET s == Min(start, file.size)
      e == Min(end, file.size)
  IN Range(file.name, s, IF e < s THEN s ELSE e)

\* the block the send loop reads at an offset: file.slice(offset, offset + size)
chunkAt(file, offset, size) == slice(file, offset, offset + size)

\* new Blob(chunks): the concatenation of the blocks, in list order
RECURSIVE Blob(_)
Blob(chunks) ==
  IF chunks = <<>> THEN <<>>
  ELSE LET h == Head(chunks)
           r == Blob(Tail(chunks))
       IN IF h.hi = h.lo THEN r
          ELSE IF r # <<>> /\ r[1].src = h.src /\ r[1].lo = h.hi
               THEN <<Range(h.src, h.lo, r[1].hi)>> \o Tail(r)
               ELSE <<h>> \o r

RECURSIVE blobSize(_)
blobSize(b) == IF b = <<>> THEN 0 ELSE byteLength(Head(b)) + blobSize(Tail(b))

\* the bytes of a whole file
FileBytes(file) == Blob(<<Range(file.name, 0, file.size)>>)

\* Math.round(x) for x = num / den >= 0
Round(num, den) == (2 * num + den) \div (2 * den)

\* Math.min(100, Math.round((done / total) * 100)); a division by zero
\* gives Infinity (or NaN for 0/0, which Math.min returns unchanged)
percentOf(done, total) ==
  IF total = 0
  THEN (IF done = 0 THEN "NaN" ELSE 100)
  ELSE Min(100, Round(done * 100, total))

\* JavaScript objects used as maps
EmptyObj == [k \in {} |-> TRUE]
Put(obj, k, v) == [x \in DOMAIN obj \cup {k} |-> IF x = k THEN v ELSE obj[x]]
Delete(obj, k) == [x \in DOMAIN obj \ {k} |-> obj[x]]


\* ------------------------------------------------------------ the state
VARIABLES
  design,           \* "ack" (part_000) or "stream" (part_001)
  host,             \* React state of the host application
  sender,           \* React state of the sender application
  hostPeer,         \* the host's peerEngine: "none", "registering", "open", "destroyed"
  link,             \* per connection, its state at the dialling side (s) and at the host (h)
  chan,             \* per connection, the messages in flight towards the host
  back,             \* per connection, the messages in flight towards the dialling side
  bufferedAmount,   \* connection.dataChannel.bufferedAmount, as sendLoop read it last
  incomingBuffer,   \* part_001: incomingBuffer.current
  incomingFilesRef, \* part_000: incomingFilesRef.current
  loops,            \* the live closures of sendFile / startStreamingFile
  resetTimers,      \* pending timeouts that reset the sender's progress display
  sends,            \* history: the ids of the announces the sender sent, in order
  foreignSent,      \* messages sent by the foreign peer so far
  foreignAcks,      \* acknowledgements sent by the foreign host so far
  sent,             \* history: the calls of send() at the sender, each with connection.open at the call
  aborted,          \* history: ids of the transfers whose read callback found the connection not open
  now,              \* the host's last reading of Date.now(), in ms since it was constructed
  announced,        \* history: per id, the size and the connection of the announces the host handled
  codec             \* the state of an isolated run: SpecCodec (split and reassemble), SpecNames (room names), SpecHosting (start of hosting)

vars == <<design, host, sender, hostPeer, link, chan, back, bufferedAmount,
          incomingBuffer, incomingFilesRef, loops, resetTimers, sends,
          foreignSent, foreignAcks, sent, aborted, now, announced, codec>>

\* the announces the host has handled for an id
AnnouncedOf(id) == IF id \in DOMAIN announced THEN announced[id] ELSE {}

\* a log line: addLog(msg) of part_001, console.log(msg) of part_000
LogLine(msg, arg) == [msg |-> msg, arg |-> arg]

isOpen(c) == link[c].s = "open"

\* connection.send(msg) at the dialling side: the transport takes the
\* message only on an open connection, and a message sent to a side that
\* has closed already is lost; what a foreign host receives is not followed
connSend(q, c, msg) ==
  IF isOpen(c) /\ link[c].h # "closed" /\ link[c].to = "app" THEN Append(q, msg) ELSE q

\* the record of a call of send() at the sender
SendCall(type, id, c) == [type |-> type, id |-> id, open |-> isOpen(c)]

\* the transport's queue is bounded in the model
canSend(c) == ~isOpen(c) \/ Len(chan[c]) < MaxInFlight

RemoveAt(seq, i) == SubSeq(seq, 1, i - 1) \o SubSeq(seq, i + 1, Len(seq))

\* ============================================================ part_001
\* ------------------------------------------------------- host (receiver)

\* (received / 1024).toFixed(1), in tenths of a KB
toFixed1KB(n) == Round(n * 10, 1024)

\* handleStreamChunk without the warning of lines 148-149: the chunk of an
\* id that has no buffer is admitted without a trace in the log
handleStreamChunkSilent(buf, logs, data) ==
  LET fileId == data.fileId
      buf1 == IF fileId \in DOMAIN buf THEN buf
              ELSE Put(buf, fileId, [name |-> "Unknown File", size |-> 0,
                                     type |-> "application/octet-stream",
                                     received |-> 0, chunks |-> <<>>, lastLog |-> 0])
      b1 == buf1[fileId]
      b2 == [b1 EXCEPT !.chunks = Append(@, data.chunk),
                       !.received = @ + byteLength(data.chunk)]
      logs2 == IF Len(b2.chunks) = 1
               THEN logs \cup {LogLine("First Chunk Received", ToString(byteLength(data.chunk)))}
               ELSE logs
      percent == IF b2.size > 0 THEN (b2.received * 100) \div b2.size ELSE 0
      report == b2.size > 0 /\ percent % 20 = 0 /\ percent # b2.lastLog
      b3 == IF report THEN [b2 EXCEPT !.lastLog = percent] ELSE b2
      logs3 == IF report THEN logs2 \cup {LogLine("Receiving", ToString(percent))} ELSE logs2
  IN [buf |-> Put(buf1, fileId, b3), logs |-> logs3]

handleStreamChunk(buf, logs, data) ==
  LET fileId == data.fileId
      known == fileId \in DOMAIN buf
      buf1 == IF known THEN buf
              ELSE Put(buf, fileId, [name |-> "Unknown File", size |-> 0,
                                     type |-> "application/octet-stream",
                                     received |-> 0, chunks |-> <<>>, lastLog |-> 0])
      logs1 == IF known THEN logs
               ELSE logs \cup {LogLine("Warning: Received chunk for unknown file", fileId)}
      b1 == buf1[fileId]
      b2 == [b1 EXCEPT !.chunks = Append(@, data.chunk),
                       !.received = @ + byteLength(data.chunk)]
      logs2 == IF Len(b2.chunks) = 1
               THEN logs1 \cup {LogLine("First Chunk Received", ToString(byteLength(data.chunk)))}
               ELSE logs1
      percent == IF b2.size > 0 THEN (b2.received * 100) \div b2.size ELSE 0
      report == b2.size > 0 /\ percent % 20 = 0 /\ percent # b2.lastLog
      b3 == IF report THEN [b2 EXCEPT !.lastLog = percent] ELSE b2
      logs3 == IF report THEN logs2 \cup {LogLine("Receiving", ToString(percent))} ELSE logs2
  IN [buf |-> Put(buf1, fileId, b3), logs |-> logs3]

\* finishFile with the emptiness test off by one: a buffer of one chunk is
\* refused like an empty one
finishFileOneChunk(buf, files, logs, fileId) ==
  IF fileId \notin DOMAIN buf \/ Len(buf[fileId].chunks) <= 1
  THEN [buf |-> buf, files |-> files,
        logs |-> logs \cup {LogLine("CRITICAL: Buffer empty. Transfer failed.", fileId)}]
  ELSE LET buffer == buf[fileId]
           newFile == [id |-> fileId, name |-> buffer.name,
                       size |-> toFixed1KB(buffer.received),
                       url |-> Blob(buffer.chunks), type |-> buffer.type]
       IN [buf |-> Delete(buf, fileId),
           files |-> <<newFile>> \o files,
           logs |-> logs \cup {LogLine("Finalizing", fileId), LogLine("SUCCESS: File ready.", fileId)}]

\* finishFile that releases the buffer and shows no card
finishFileNoCard(buf, files, logs, fileId) ==
  [buf |-> Delete(buf, fileId), files |-> files,
   logs |-> logs \cup {LogLine("Finalizing", fileId)}]

finishFile(buf, files, logs, fileId) ==
  IF fileId \notin DOMAIN buf \/ buf[fileId].chunks = <<>>
  THEN [buf |-> buf, files |-> files,
        logs |-> logs \cup {LogLine("CRITICAL: Buffer empty. Transfer failed.", fileId)}]
  ELSE LET buffer == buf[fileId]
           newFile == [id |-> fileId, name |-> buffer.name,
                       size |-> toFixed1KB(buffer.received),
                       url |-> Blob(buffer.chunks), type |-> buffer.type]
       IN [buf |-> Delete(buf, fileId),
           files |-> <<newFile>> \o files,
           logs |-> logs \cup {LogLine("Finalizing", fileId), LogLine("SUCCESS: File ready.", fileId)}]

\* connection.on('data') of the host
streamOnData(c) ==
  /\ design = "stream"
  /\ link[c].h = "open"
  /\ chan[c] # <<>>
  /\ LET data == Head(chan[c])
     IN /\ chan' = [chan EXCEPT ![c] = Tail(@)]
        /\ CASE data.type = "file-start" ->
                  /\ incomingBuffer' = Put(incomingBuffer, data.fileId,
                         [name |-> data.name, size |-> data.size, type |-> data.mime,
                          received |-> 0, chunks |-> <<>>, lastLog |-> 0])
                  /\ host' = [host EXCEPT !.logs = @ \cup {LogLine("Signal: FILE START", data.fileId)}]
                  /\ announced' = Put(announced, data.fileId, AnnouncedOf(data.fileId) \cup {[size |-> data.size, conn |-> c]})
             [] data.type = "stream-chunk" ->
                  LET r == handleStreamChunk(incomingBuffer, host.logs, data)
                  IN /\ incomingBuffer' = r.buf
                     /\ host' = [host EXCEPT !.logs = r.logs]
                     /\ UNCHANGED announced
             [] data.type = "file-end" ->
                  LET r == finishFile(incomingBuffer, host.files,
                                      host.logs \cup {LogLine("Signal: FILE END", data.fileId)},
                                      data.fileId)
                  IN /\ incomingBuffer' = r.buf
                     /\ host' = [host EXCEPT !.files = r.files, !.logs = r.logs]
                     /\ UNCHANGED announced
             [] OTHER -> UNCHANGED <<incomingBuffer, host, announced>>
  /\ UNCHANGED <<codec, design, sender, hostPeer, link, back, bufferedAmount, incomingFilesRef,
                 loops, resetTimers, sends, foreignSent, foreignAcks, sent, aborted, now>>

\* connection.on('close') of the host
streamOnClose(c) ==
  /\ design = "stream"
  /\ link[c].h = "open"
  /\ link' = [link EXCEPT ![c].h = "closed"]
  /\ chan' = [chan EXCEPT ![c] = <<>>]
  /\ host' = [host EXCEPT !.conn = "null", !.logs = @ \cup {LogLine("Connection Closed", "")}]
  /\ incomingBuffer' = EmptyObj
  /\ UNCHANGED <<codec, announced, design, sender, hostPeer, back, bufferedAmount, incomingFilesRef,
                 loops, resetTimers, sends, foreignSent, foreignAcks, sent, aborted, now>>


\* destroyHost without setFiles([]) (line 214)
streamDestroyHostKeepsFiles ==
  /\ design = "stream"
  /\ host.role = "host"
  /\ hostPeer' = "destroyed"
  /\ link' = [c \in Conns |-> [link[c] EXCEPT !.h = IF @ = "open" THEN "closed" ELSE @]]
  /\ chan' = [c \in Conns |-> <<>>]
  /\ host' = [host EXCEPT !.role = "home", !.conn = "null", !.logs = {}]
  /\ incomingBuffer' = EmptyObj
  /\ UNCHANGED <<codec, announced, design, sender, back, bufferedAmount, incomingFilesRef,
                 loops, resetTimers, sends, foreignSent, foreignAcks, sent, aborted, now>>

\* destroyHost of part_001; peer.destroy() closes every connection of the
\* peer, which runs their close handlers first
streamDestroyHost ==
  /\ design = "stream"
  /\ host.role = "host"
  /\ hostPeer' = "destroyed"
  /\ link' = [c \in Conns |-> [link[c] EXCEPT !.h = IF @ = "open" THEN "closed" ELSE @]]
  /\ chan' = [c \in Conns |-> <<>>]
  /\ host' = [host EXCEPT !.role = "home", !.files = <<>>, !.conn = "null", !.logs = {}]
  /\ incomingBuffer' = EmptyObj
  /\ UNCHANGED <<codec, announced, design, sender, back, bufferedAmount, incomingFilesRef,
                 loops, resetTimers, sends, foreignSent, foreignAcks, sent, aborted, now>>

\* --------------------------------------------------------------- sender

\* sendFile: the onChange handler of the file input, which is disabled
\* while !conn || uploadProgress > 0
sendFile(file, fileId) ==
  /\ design = "stream"
  /\ sender.role = "sender"
  /\ sender.conn # "null" /\ sender.uploadProgress = 0
  /\ Len(sends) < MaxSends
  /\ sends' = Append(sends, fileId)
  /\ LET c == sender.conn
         msg == [type |-> "file-start", fileId |-> fileId, name |-> file.name,
                 size |-> file.size, mime |-> file.type]
     IN /\ canSend(c)
        /\ chan' = [chan EXCEPT ![c] = connSend(@, c, msg)]
        /\ sent' = sent \cup {SendCall(msg.type, fileId, c)}
        /\ loops' = Append(loops, [conn |-> c, fileId |-> fileId, file |-> file,
                                   offset |-> 0, pc |-> "timer"])
  /\ sender' = [sender EXCEPT !.currentFileName = file.name, !.uploadProgress = 1,
                              !.logs = @ \cup {LogLine("Starting Upload", file.name)}]
  /\ UNCHANGED <<codec, announced, design, host, hostPeer, link, back, bufferedAmount, incomingBuffer,
                 incomingFilesRef, resetTimers, foreignSent, foreignAcks, aborted, now>>

\* sendNextChunk, run by a timer
sendNextChunk(i) ==
  /\ design = "stream"
  /\ i \in DOMAIN loops
  /\ loops[i].pc = "timer"
  /\ LET l == loops[i]
         msg == [type |-> "file-end", fileId |-> l.fileId]
     IN IF l.offset >= l.file.size
        THEN /\ canSend(l.conn)
             /\ chan' = [chan EXCEPT ![l.conn] = connSend(@, l.conn, msg)]
             /\ sent' = sent \cup {SendCall(msg.type, l.fileId, l.conn)}
             /\ sender' = [sender EXCEPT !.uploadProgress = 100,
                              !.logs = @ \cup {LogLine("Upload Complete. Sending END signal.", "")}]
             /\ resetTimers' = resetTimers + 1
             /\ loops' = RemoveAt(loops, i)
        ELSE /\ loops' = [loops EXCEPT ![i].pc = "reading"]
             /\ UNCHANGED <<chan, sent, sender, resetTimers>>
  /\ UNCHANGED <<codec, announced, design, host, hostPeer, link, back, bufferedAmount, incomingBuffer,
                 incomingFilesRef, sends, foreignSent, foreignAcks, aborted, now>>

\* reader.onload of sendFile
streamReaderOnload(i) ==
  /\ design = "stream"
  /\ i \in DOMAIN loops
  /\ loops[i].pc = "reading"
  /\ LET l == loops[i]
         msg == [type |-> "stream-chunk", fileId |-> l.fileId,
                 chunk |-> chunkAt(l.file, l.offset, CHUNK_SIZE)]
     IN IF ~isOpen(l.conn)
        THEN /\ sender' = [sender EXCEPT !.logs = @ \cup {LogLine("Connection lost.", "")}]
             /\ aborted' = aborted \cup {l.fileId}
             /\ loops' = RemoveAt(loops, i)
             /\ UNCHANGED <<chan, sent>>
        ELSE /\ canSend(l.conn)
             /\ chan' = [chan EXCEPT ![l.conn] = connSend(@, l.conn, msg)]
             /\ sent' = sent \cup {SendCall(msg.type, l.fileId, l.conn)}
             /\ loops' = [loops EXCEPT ![i].offset = @ + CHUNK_SIZE, ![i].pc = "timer"]
             /\ sender' = [sender EXCEPT !.uploadProgress =
                              percentOf(l.offset + CHUNK_SIZE, l.file.size)]
             /\ UNCHANGED aborted
  /\ UNCHANGED <<codec, announced, design, host, hostPeer, link, back, bufferedAmount, incomingBuffer,
                 incomingFilesRef, resetTimers, sends, foreignSent, foreignAcks, now>>

\* the timeout that sendNextChunk sets after the END signal
streamResetTimeout ==
  /\ design = "stream"
  /\ resetTimers > 0
  /\ resetTimers' = resetTimers - 1
  /\ sender' = [sender EXCEPT !.uploadProgress = 0, !.currentFileName = ""]
  /\ UNCHANGED <<codec, announced, design, host, hostPeer, link, chan, back, bufferedAmount, incomingBuffer,
                 incomingFilesRef, loops, sends, foreignSent, foreignAcks, sent, aborted, now>>


\* ====================================================== both iterations
\* ------------------------------------------- registration and connection

\* startHosting up to new Peer(cleanId); a room name that a foreign peer
\* holds cannot be registered
startHosting ==
  /\ host.role = "home"
  /\ hostPeer = "none"
  /\ link[AppConn].to = "app"
  /\ hostPeer' = "registering"
  /\ host' = [host EXCEPT !.logs = IF design = "stream"
                                   THEN @ \cup {LogLine("Starting Host", "")} ELSE @]
  /\ UNCHANGED <<codec, announced, design, sender, link, chan, back, bufferedAmount, incomingBuffer,
                 incomingFilesRef, loops, resetTimers, sends, foreignSent, foreignAcks, sent, aborted, now>>

\* peer.on('open') of the host
peerOnOpen ==
  /\ hostPeer = "registering"
  /\ hostPeer' = "open"
  /\ host' = [host EXCEPT !.role = "host",
                          !.logs = IF design = "stream"
                                   THEN @ \cup {LogLine("Host Online", "")} ELSE @]
  /\ UNCHANGED <<codec, announced, design, sender, link, chan, back, bufferedAmount, incomingBuffer,
                 incomingFilesRef, loops, resetTimers, sends, foreignSent, foreignAcks, sent, aborted, now>>

\* peer.on('connection') of the host
peerOnConnection(c) ==
  /\ hostPeer = "open"
  /\ link[c].to = "app"
  /\ link[c].s \in {"dialing", "open"}
  /\ link[c].h = "new"
  /\ link' = [link EXCEPT ![c].h = "open"]
  /\ host' = [host EXCEPT !.conn = c,
                          !.logs = IF design = "stream"
                                   THEN @ \cup {LogLine("New Connection", c)} ELSE @]
  /\ UNCHANGED <<codec, announced, design, sender, hostPeer, chan, back, bufferedAmount, incomingBuffer,
                 incomingFilesRef, loops, resetTimers, sends, foreignSent, foreignAcks, sent, aborted, now>>

\* connectToHost up to peer.connect(...): the room name is registered by
\* the host application when that is online, by a foreign peer otherwise
connectToHost ==
  /\ sender.role = "home"
  /\ link[AppConn].s = "new"
  /\ foreignSent = 0
  /\ link' = [link EXCEPT ![AppConn].s = "dialing",
                          ![AppConn].to = IF hostPeer = "open" THEN "app" ELSE "foreign"]
  /\ sender' = [sender EXCEPT !.status = "Connecting...",
                              !.logs = IF design = "stream"
                                       THEN @ \cup {LogLine("Connecting", "")} ELSE @]
  /\ UNCHANGED <<codec, announced, design, host, hostPeer, chan, back, bufferedAmount, incomingBuffer,
                 incomingFilesRef, loops, resetTimers, sends, foreignSent, foreignAcks, sent, aborted, now>>

\* connection.on('open') of the sender.  part_001 never reads the channel's
\* bufferedAmount: the model holds it at one level for the whole connection
connectionOnOpen(level) ==
  /\ link[AppConn].s = "dialing"
  /\ link[AppConn].to = "foreign" \/ link[AppConn].h = "open"
  /\ link' = [link EXCEPT ![AppConn].s = "open"]
  /\ bufferedAmount' = IF design = "stream" THEN level ELSE bufferedAmount
  /\ sender' = [sender EXCEPT !.conn = AppConn, !.status = "Connected", !.role = "sender",
                              !.logs = IF design = "stream"
                                       THEN @ \cup {LogLine("Connected to Host!", "")} ELSE @]
  /\ UNCHANGED <<codec, announced, design, host, hostPeer, chan, back, incomingBuffer,
                 incomingFilesRef, loops, resetTimers, sends, foreignSent, foreignAcks, sent, aborted, now>>

\* connection.on('close') of the sender: the connection is not open any
\* more when the handler runs
senderOnClose ==
  /\ link[AppConn].s = "open"
  /\ link' = [link EXCEPT ![AppConn].s = "closed"]
  /\ back' = [back EXCEPT ![AppConn] = <<>>]
  /\ sender' = [sender EXCEPT !.status = "Disconnected", !.conn = "null",
                              !.logs = IF design = "stream"
                                       THEN @ \cup {LogLine("Host Disconnected", "")} ELSE @]
  /\ UNCHANGED <<codec, announced, design, host, hostPeer, chan, bufferedAmount, incomingBuffer,
                 incomingFilesRef, loops, resetTimers, sends, foreignSent, foreignAcks, sent, aborted, now>>

\* the Disconnect button of the sender view
disconnect ==
  /\ sender.role = "sender"
  /\ sender' = [sender EXCEPT !.role = "home", !.conn = "null"]
  /\ UNCHANGED <<codec, announced, design, host, hostPeer, link, chan, back, bufferedAmount, incomingBuffer,
                 incomingFilesRef, loops, resetTimers, sends, foreignSent, foreignAcks, sent, aborted, now>>


\* --------------------------------------------------------- foreign peers
\* Any program can register or dial a room name; what such a peer sends is
\* an input of the handlers.
ForeignIds == {"t1"}
ForeignSize == 2 * CHUNK_SIZE
ForeignChunk == Range("x", 0, CHUNK_SIZE)

ForeignMsgs ==
  IF design = "stream"
  THEN {[type |-> "file-start", fileId |-> id, name |-> "x.bin", size |-> ForeignSize,
         mime |-> "application/x"] : id \in ForeignIds}
       \cup {[type |-> "stream-chunk", fileId |-> id, chunk |-> ForeignChunk] : id \in ForeignIds}
       \cup {[type |-> "file-end", fileId |-> id] : id \in ForeignIds}
  ELSE {[type |-> "HEADER", id |-> id, name |-> "x.bin", size |-> ForeignSize,
         ftype |-> "application/x"] : id \in ForeignIds}
       \cup {[type |-> "CHUNK", id |-> id, chunk |-> ForeignChunk] : id \in ForeignIds}

\* a foreign peer dials the host
foreignDial ==
  /\ hostPeer = "open"
  /\ link[ForeignConn].s = "new"
  /\ link' = [link EXCEPT ![ForeignConn].s = "open"]
  /\ UNCHANGED <<codec, announced, design, host, sender, hostPeer, chan, back, bufferedAmount, incomingBuffer,
                 incomingFilesRef, loops, resetTimers, sends, foreignSent, foreignAcks, sent, aborted, now>>

\* a foreign peer sends a message to the host; a run has the host served
\* either by the sender application or by the foreign peer's messages
foreignSend(msg) ==
  /\ link[AppConn].s = "new"
  /\ link[ForeignConn].s = "open"
  /\ link[ForeignConn].h # "closed"
  /\ foreignSent < MaxForeign
  /\ Len(chan[ForeignConn]) < MaxInFlight
  /\ foreignSent' = foreignSent + 1
  /\ chan' = [chan EXCEPT ![ForeignConn] = Append(@, msg)]
  /\ UNCHANGED <<codec, announced, design, host, sender, hostPeer, link, back, bufferedAmount, incomingBuffer,
                 incomingFilesRef, loops, resetTimers, sends, foreignAcks, sent, aborted, now>>

NoCodec == [phase |-> "off"]

InitCommon ==
  /\ host = [role |-> "home", conn |-> "null", files |-> <<>>, logs |-> {}]
  /\ sender = [role |-> "home", conn |-> "null", status |-> "", uploadProgress |-> 0,
               currentFileName |-> "", sendingState |-> "idle", fileToSendRef |-> <<>>,
               logs |-> {}]
  /\ hostPeer = "none"
  /\ link = [c \in Conns |-> [s |-> "new", h |-> "new", to |-> "app"]]
  /\ chan = [c \in Conns |-> <<>>]
  /\ back = [c \in Conns |-> <<>>]
  /\ bufferedAmount = 0
  /\ incomingBuffer = EmptyObj
  /\ incomingFilesRef = EmptyObj
  /\ loops = <<>>
  /\ resetTimers = 0
  /\ sends = <<>>
  /\ foreignSent = 0
  /\ foreignAcks = 0
  /\ sent = {}
  /\ aborted = {}
  /\ now = 0
  /\ announced = EmptyObj

InitStream == design = "stream" /\ codec = NoCodec /\ InitCommon

NextCommon ==
  \/ startHosting
  \/ peerOnOpen
  \/ \E c \in Conns : peerOnConnection(c)
  \/ connectToHost
  \/ \E level \in BufferedLevels : connectionOnOpen(level)
  \/ senderOnClose
  \/ disconnect
  \/ foreignDial
  \/ \E msg \in ForeignMsgs : foreignSend(msg)

NextStream ==
  \/ NextCommon
  \/ \E c \in Conns : streamOnData(c)
  \/ \E c \in Conns : streamOnClose(c)
  \/ streamDestroyHost
  \/ \E file \in UserFiles, fileId \in Ids : sendFile(file, fileId)
  \/ \E i \in DOMAIN loops : sendNextChunk(i)
  \/ \E i \in DOMAIN loops : streamReaderOnload(i)
  \/ streamResetTimeout

SpecStream == InitStream /\ [][NextStream]_vars


\* ============================================================ part_000
\* ------------------------------------------------------- host (receiver)
\* the clock of the model stops at MaxClock
MaxClock == 1001
\* what may pass between two readings of Date.now(), in ms
Ticks == {0, 500, 501}

\* formatBytes(bytes): the number in tenths, and the unit
formatBytes(bytes) ==
  IF bytes = 0 THEN [tenths |-> 0, unit |-> "B"]
  ELSE LET i == IF bytes < 1024 THEN 0
                ELSE IF bytes < 1024 * 1024 THEN 1
                ELSE IF bytes < 1024 * 1024 * 1024 THEN 2 ELSE 3
           k == IF i = 0 THEN 1
                ELSE IF i = 1 THEN 1024
                ELSE IF i = 2 THEN 1024 * 1024 ELSE 1024 * 1024 * 1024
       IN [tenths |-> Round(bytes * 10, k),
           unit |-> IF i = 0 THEN "B" ELSE IF i = 1 THEN "KB" ELSE IF i = 2 THEN "MB" ELSE "GB"]

\* prev.map(f => f.id === id ? { ...f, ...patch } : f)
mapCards(files, id, patch) ==
  [i \in 1..Len(files) |->
     IF files[i].id = id
     THEN [k \in DOMAIN files[i] |-> IF k \in DOMAIN patch THEN patch[k] ELSE files[i][k]]
     ELSE files[i]]

\* finalizeFile(id); a card's url is <<>> for null and <<blob>> otherwise
finalizeFile(ref, files, id) ==
  LET meta == ref[id]
      blob == Blob(meta.chunks)
      done == [status |-> "completed", progress |-> 100, url |-> <<blob>>]
  IN [ref |-> [ref EXCEPT ![id].chunks = <<>>],
      files |-> mapCards(files, id, done)]

\* a throttle that also lets an update through exactly 500 ms after the last
progressDueAtLeast(t, meta) == t - meta.lastUpdate >= 500 \/ meta.receivedBytes = meta.size

\* the throttle of the progress update
progressDue(t, meta) == t - meta.lastUpdate > 500 \/ meta.receivedBytes = meta.size

\* the CHUNK branch of handleIncomingData, at time t
handleChunk(ref, files, data, t) ==
  IF data.id \notin DOMAIN ref
  THEN [ref |-> ref, files |-> files]
  ELSE LET id == data.id
           m1 == [ref[id] EXCEPT !.chunks = Append(@, data.chunk),
                                 !.receivedBytes = @ + byteLength(data.chunk)]
           due == progressDue(t, m1)
           percent == percentOf(m1.receivedBytes, m1.size)
           show == [progress |-> percent]
           files1 == IF due THEN mapCards(files, id, show) ELSE files
           m2 == IF due THEN [m1 EXCEPT !.lastUpdate = t] ELSE m1
           ref1 == [ref EXCEPT ![id] = m2]
       IN IF m2.receivedBytes >= m2.size
          THEN finalizeFile(ref1, files1, id)
          ELSE [ref |-> ref1, files |-> files1]

\* a send that puts the message on the connection twice
hostSendTwice(q, c, msg) ==
  IF c = AppConn /\ link[c].s # "closed" THEN Append(Append(q, msg), msg) ELSE q

\* connection.send(msg) at the host; what is sent to the foreign peer is
\* not followed further
hostSend(q, c, msg) ==
  IF c = AppConn /\ link[c].s # "closed" THEN Append(q, msg) ELSE q

\* connection.on('data') of the host: handleIncomingData(data, connection)
handleIncomingData(c, tick) ==
  /\ design = "ack"
  /\ link[c].h = "open"
  /\ chan[c] # <<>>
  /\ Len(back[c]) < MaxInFlight
  /\ LET data == Head(chan[c])
         t == IF data.type \in {"HEADER", "CHUNK"} /\ now + tick <= MaxClock
              THEN now + tick ELSE now
     IN /\ chan' = [chan EXCEPT ![c] = Tail(@)]
        /\ now' = t
        /\ CASE data.type = "HEADER" ->
                  /\ incomingFilesRef' = Put(incomingFilesRef, data.id,
                         [name |-> data.name, size |-> data.size, type |-> data.ftype,
                          receivedBytes |-> 0, chunks |-> <<>>, lastUpdate |-> t])
                  /\ host' = [host EXCEPT
                         !.files = <<[id |-> data.id, name |-> data.name,
                                      sizeDisplay |-> formatBytes(data.size), progress |-> 0,
                                      status |-> "receiving", url |-> <<>>]>> \o @,
                         !.logs = @ \cup {LogLine("Header received. Sending ACK.", "")}]
                  /\ back' = [back EXCEPT ![c] = hostSend(@, c, [type |-> "ACK", id |-> data.id])]
                  /\ announced' = Put(announced, data.id, AnnouncedOf(data.id) \cup {[size |-> data.size, conn |-> c]})
             [] data.type = "CHUNK" ->
                  LET r == handleChunk(incomingFilesRef, host.files, data, t)
                  IN /\ incomingFilesRef' = r.ref
                     /\ host' = [host EXCEPT !.files = r.files]
                     /\ UNCHANGED <<back, announced>>
             [] OTHER -> UNCHANGED <<incomingFilesRef, host, back, announced>>
  /\ UNCHANGED <<codec, design, sender, hostPeer, link, bufferedAmount, incomingBuffer,
                 loops, resetTimers, sends, foreignSent, foreignAcks, sent, aborted>>

\* connection.on('close') of the host
ackOnClose(c) ==
  /\ design = "ack"
  /\ link[c].h = "open"
  /\ link' = [link EXCEPT ![c].h = "closed"]
  /\ chan' = [chan EXCEPT ![c] = <<>>]
  /\ host' = [host EXCEPT !.conn = "null"]
  /\ UNCHANGED <<codec, announced, design, sender, hostPeer, back, bufferedAmount, incomingBuffer,
                 incomingFilesRef, loops, resetTimers, sends, foreignSent, foreignAcks, sent,
                 aborted, now>>

\* destroyHost of part_000
ackDestroyHost ==
  /\ design = "ack"
  /\ host.role = "host"
  /\ hostPeer' = "destroyed"
  /\ link' = [c \in Conns |-> [link[c] EXCEPT !.h = IF @ = "open" THEN "closed" ELSE @]]
  /\ chan' = [c \in Conns |-> <<>>]
  /\ host' = [host EXCEPT !.role = "home", !.files = <<>>, !.conn = "null"]
  /\ incomingFilesRef' = EmptyObj
  /\ UNCHANGED <<codec, announced, design, sender, back, bufferedAmount, incomingBuffer,
                 loops, resetTimers, sends, foreignSent, foreignAcks, sent, aborted, now>>


\* --------------------------------------------------------------- sender

\* initiateSend: the onChange handler of the file input, which is disabled
\* while !conn || sendingState !== 'idle'
initiateSend(file, fileId) ==
  /\ design = "ack"
  /\ sender.role = "sender"
  /\ sender.conn # "null" /\ sender.sendingState = "idle"
  /\ Len(sends) < MaxSends
  /\ sends' = Append(sends, fileId)
  /\ LET c == sender.conn
         msg == [type |-> "HEADER", id |-> fileId, name |-> file.name,
                 size |-> file.size, ftype |-> file.type]
     IN /\ canSend(c)
        /\ chan' = [chan EXCEPT ![c] = connSend(@, c, msg)]
        /\ sent' = sent \cup {SendCall(msg.type, fileId, c)}
  /\ sender' = [sender EXCEPT !.currentFileName = file.name, !.uploadProgress = 0,
                              !.sendingState = "waiting_ack", !.fileToSendRef = <<file>>]
  /\ UNCHANGED <<codec, announced, design, host, hostPeer, link, back, bufferedAmount, incomingBuffer,
                 incomingFilesRef, loops, resetTimers, foreignSent, foreignAcks, aborted, now>>

\* one run of sendLoop for the closure ls[i], up to its return; sd is the
\* sender's state when it starts and level the bufferedAmount it reads
sendLoop(ls, i, sd, level) ==
  LET l == ls[i]
  IN /\ bufferedAmount' = level
     /\ IF level > HIGH_WATER
        THEN /\ loops' = [ls EXCEPT ![i].pc = "timer"]
             /\ sender' = sd
             /\ UNCHANGED resetTimers
        ELSE IF l.offset >= l.file.size
        THEN /\ loops' = RemoveAt(ls, i)
             /\ sender' = [sd EXCEPT !.uploadProgress = 100, !.sendingState = "done"]
             /\ resetTimers' = resetTimers + 1
        ELSE /\ loops' = [ls EXCEPT ![i].pc = "reading"]
             /\ sender' = sd
             /\ UNCHANGED resetTimers

\* connection.on('data') of the sender: an ACK calls
\* startStreamingFile(connection, data.id), which runs sendLoop once
senderOnData(level) ==
  /\ design = "ack"
  /\ isOpen(AppConn)
  /\ back[AppConn] # <<>>
  /\ back' = [back EXCEPT ![AppConn] = Tail(@)]
  /\ LET data == Head(back[AppConn])
         sd == [sender EXCEPT !.sendingState = "sending"]
     IN IF data.type # "ACK"
        THEN UNCHANGED <<sender, loops, resetTimers, bufferedAmount>>
        ELSE IF sender.fileToSendRef = <<>>
        THEN sender' = sd /\ UNCHANGED <<loops, resetTimers, bufferedAmount>>
        ELSE LET ls == Append(loops, [conn |-> AppConn, fileId |-> data.id,
                                      file |-> sender.fileToSendRef[1],
                                      offset |-> 0, pc |-> "timer"])
             IN sendLoop(ls, Len(ls), sd, level)
  /\ UNCHANGED <<codec, announced, design, host, hostPeer, link, chan, incomingBuffer,
                 incomingFilesRef, sends, foreignSent, foreignAcks, sent, aborted, now>>

\* sendLoop run by a timer (after 50 ms of back-off, or after a chunk)
sendLoopTimer(i, level) ==
  /\ design = "ack"
  /\ i \in DOMAIN loops
  /\ loops[i].pc = "timer"
  /\ sendLoop(loops, i, sender, level)
  /\ UNCHANGED <<codec, announced, design, host, hostPeer, link, chan, back, incomingBuffer,
                 incomingFilesRef, sends, foreignSent, foreignAcks, sent, aborted, now>>

\* reader.onload of startStreamingFile
ackReaderOnload(i) ==
  /\ design = "ack"
  /\ i \in DOMAIN loops
  /\ loops[i].pc = "reading"
  /\ LET l == loops[i]
         msg == [type |-> "CHUNK", id |-> l.fileId,
                 chunk |-> chunkAt(l.file, l.offset, CHUNK_SIZE)]
     IN IF ~isOpen(l.conn)
        THEN /\ aborted' = aborted \cup {l.fileId}
             /\ loops' = RemoveAt(loops, i)
             /\ UNCHANGED <<chan, sent, sender>>
        ELSE /\ canSend(l.conn)
             /\ chan' = [chan EXCEPT ![l.conn] = connSend(@, l.conn, msg)]
             /\ sent' = sent \cup {SendCall(msg.type, l.fileId, l.conn)}
             /\ loops' = [loops EXCEPT ![i].offset = @ + CHUNK_SIZE, ![i].pc = "timer"]
             /\ sender' = [sender EXCEPT !.uploadProgress =
                              percentOf(l.offset + CHUNK_SIZE, l.file.size)]
             /\ UNCHANGED aborted
  /\ UNCHANGED <<codec, announced, design, host, hostPeer, link, back, bufferedAmount, incomingBuffer,
                 incomingFilesRef, resetTimers, sends, foreignSent, foreignAcks, now>>

\* a reset that clears the progress and the file name and leaves the state
ackResetTimeoutKeepsState ==
  /\ design = "ack"
  /\ resetTimers > 0
  /\ resetTimers' = resetTimers - 1
  /\ sender' = [sender EXCEPT !.uploadProgress = 0, !.currentFileName = ""]
  /\ UNCHANGED <<codec, announced, design, host, hostPeer, link, chan, back, bufferedAmount, incomingBuffer,
                 incomingFilesRef, loops, sends, foreignSent, foreignAcks, sent, aborted, now>>

\* the timeout that sendLoop sets at the end of the file
ackResetTimeout ==
  /\ design = "ack"
  /\ resetTimers > 0
  /\ resetTimers' = resetTimers - 1
  /\ sender' = [sender EXCEPT !.sendingState = "idle", !.uploadProgress = 0,
                              !.currentFileName = ""]
  /\ UNCHANGED <<codec, announced, design, host, hostPeer, link, chan, back, bufferedAmount, incomingBuffer,
                 incomingFilesRef, loops, sends, foreignSent, foreignAcks, sent, aborted, now>>

\* a foreign peer that registered the room name answers the sender
foreignAck(id) ==
  /\ design = "ack"
  /\ link[AppConn].to = "foreign"
  /\ isOpen(AppConn)
  /\ foreignAcks < MaxAcks
  /\ Len(back[AppConn]) < MaxInFlight
  /\ foreignAcks' = foreignAcks + 1
  /\ back' = [back EXCEPT ![AppConn] = Append(@, [type |-> "ACK", id |-> id])]
  /\ UNCHANGED <<codec, announced, design, host, sender, hostPeer, link, chan, bufferedAmount, incomingBuffer,
                 incomingFilesRef, loops, resetTimers, sends, foreignSent, sent, aborted, now>>

InitAck == design = "ack" /\ codec = NoCodec /\ InitCommon

NextAck ==
  \/ NextCommon
  \/ \E c \in Conns, tick \in Ticks : handleIncomingData(c, tick)
  \/ \E c \in Conns : ackOnClose(c)
  \/ ackDestroyHost
  \/ \E file \in UserFiles, fileId \in Ids : initiateSend(file, fileId)
  \/ \E level \in BufferedLevels : senderOnData(level)
  \/ \E i \in DOMAIN loops, level \in BufferedLevels : sendLoopTimer(i, level)
  \/ \E i \in DOMAIN loops : ackReaderOnload(i)
  \/ ackResetTimeout
  \/ \E id \in Ids : foreignAck(id)

SpecAck == InitAck /\ [][NextAck]_vars


\* ===================================================== split and reassemble
\* The send loop and the receiver's buffer without the rest of the
\* application: a file of N bytes is read block by block at a chunk size c,
\* the messages travel an in-order channel, and the receiver of part_001
\* handles them as they arrive (handleStreamChunk, finishFile).  The run
\* starts when the announce has been handled.
CodecChunkSizes == {1, 3, CHUNK_SIZE}
CodecSizes(c) == {0, 1, c - 1, c, c + 1, 10 * c + 7}
CodecId == "t1"

InitCodec ==
  /\ design = "codec"
  /\ InitCommon
  /\ \E c \in CodecChunkSizes : \E n \in CodecSizes(c) :
       codec = [phase |-> "run", file |-> FileOf(n), chunkSize |-> c, offset |-> 0,
                wire |-> <<>>, emitted |-> <<>>,
                buf |-> Put(EmptyObj, CodecId,
                            [name |-> FileOf(n).name, size |-> n, type |-> FileOf(n).type,
                             received |-> 0, chunks |-> <<>>, lastLog |-> 0]),
                files |-> <<>>, logs |-> {}]

sysVars == <<design, host, sender, hostPeer, link, chan, back, bufferedAmount,
             incomingBuffer, incomingFilesRef, loops, resetTimers, sends,
             foreignSent, foreignAcks, sent, aborted, now, announced>>

\* reader.onload of the send loop: send the block, advance the offset
codecSend ==
  /\ codec.phase = "run"
  /\ codec.offset < codec.file.size
  /\ Len(codec.wire) < MaxInFlight
  /\ codec' = [codec EXCEPT
                 !.wire = Append(@, [type |-> "stream-chunk", fileId |-> CodecId,
                                     chunk |-> chunkAt(codec.file, codec.offset, codec.chunkSize)]),
                 !.emitted = Append(@, byteLength(chunkAt(codec.file, codec.offset, codec.chunkSize))),
                 !.offset = @ + codec.chunkSize]
  /\ UNCHANGED sysVars

\* the end-of-file branch of the send loop
codecEnd ==
  /\ codec.phase = "run"
  /\ codec.offset >= codec.file.size
  /\ Len(codec.wire) < MaxInFlight
  /\ codec' = [codec EXCEPT !.phase = "ended",
                            !.wire = Append(@, [type |-> "file-end", fileId |-> CodecId])]
  /\ UNCHANGED sysVars

\* the receiver takes the next message
codecReceive ==
  /\ codec.wire # <<>>
  /\ LET data == Head(codec.wire)
     IN IF data.type = "stream-chunk"
        THEN LET r == handleStreamChunk(codec.buf, codec.logs, data)
             IN codec' = [codec EXCEPT !.wire = Tail(@), !.buf = r.buf, !.logs = r.logs]
        ELSE LET r == finishFile(codec.buf, codec.files, codec.logs, data.fileId)
             IN codec' = [codec EXCEPT !.wire = Tail(@), !.buf = r.buf, !.logs = r.logs,
                                       !.files = r.files, !.phase = "done"]
  /\ UNCHANGED sysVars

NextCodec == codecSend \/ codecEnd \/ codecReceive

SpecCodec == InitCodec /\ [][NextCodec]_vars

\* ------------------------------------------------------------------- C1
\* C1: for a file of N bytes and a chunk size c, N in {0, 1, c-1, c, c+1,
\* 10c+7}, the blocks the send loop emits, appended by the receiver in
\* arrival order and concatenated, give an artifact with exactly the bytes
\* of the file.
C1_RoundTrip ==
  codec.phase = "done" =>
    /\ Len(codec.files) = 1
    /\ codec.files[1].url = FileBytes(codec.file)
    /\ blobSize(codec.files[1].url) = codec.file.size

\* the same for the files that have at least one byte
C1_RoundTripNonEmpty ==
  (codec.phase = "done" /\ codec.file.size > 0) =>
    /\ Len(codec.files) = 1
    /\ codec.files[1].url = FileBytes(codec.file)
    /\ blobSize(codec.files[1].url) = codec.file.size


\* ------------------------------------------------- steps, as seen in a pair of states
\* the host's data handler takes the first message of connection c
hostHandles(c) ==
  /\ link[c].h = "open" /\ link'[c].h = "open"
  /\ chan[c] # <<>>
  /\ chan'[c] = Tail(chan[c])

\* the artifacts the host holds for an id: the Blobs behind its download URLs
Artifacts(id) ==
  IF design = "stream"
  THEN {host.files[i].url : i \in {j \in DOMAIN host.files : host.files[j].id = id}}
  ELSE {host.files[i].url[1] : i \in {j \in DOMAIN host.files :
                                      host.files[j].id = id /\ host.files[j].url # <<>>}}

AnomalyMsgs == {"Warning: Received chunk for unknown file",
                "CRITICAL: Buffer empty. Transfer failed."}
AnomalyLogged(logs, id) == \E l \in logs : l.msg \in AnomalyMsgs /\ l.arg = id

\* ------------------------------------------------------------------- C2
\* C2: a finish message for an announced transfer that is handled while
\* receivedBytes differs from the announced size ends in a failure that is
\* reported, and adds no artifact to the list of received files.
C2_SizeMismatchFails ==
  [][\A c \in Conns :
       (/\ hostHandles(c)
        /\ Head(chan[c]).type = "file-end"
        /\ Head(chan[c]).fileId \in DOMAIN announced
        /\ Head(chan[c]).fileId \in DOMAIN incomingBuffer
        /\ \A a \in announced[Head(chan[c]).fileId] :
              incomingBuffer[Head(chan[c]).fileId].received # a.size)
       => /\ host'.files = host.files
          /\ AnomalyLogged(host'.logs, Head(chan[c]).fileId)]_vars

\* ------------------------------------------------------------------- C3
\* C3: every artifact the host holds for an announced transfer has exactly
\* the announced number of bytes.
C3_ArtifactHasAnnouncedSize ==
  \A id \in DOMAIN announced : \A blob \in Artifacts(id) :
     \E a \in announced[id] : blobSize(blob) = a.size

\* ------------------------------------------------------------------- C4
\* C4: handling a chunk whose id was never announced adds no artifact and
\* raises an anomaly signal for that id.
C4_UnknownChunkFlagged ==
  [][\A c \in Conns :
       (/\ hostHandles(c)
        /\ Head(chan[c]).type \in {"CHUNK", "stream-chunk"}
        /\ (IF design = "ack" THEN Head(chan[c]).id ELSE Head(chan[c]).fileId)
              \notin DOMAIN announced)
       => /\ host'.files = host.files
          /\ AnomalyLogged(host'.logs,
                IF design = "ack" THEN Head(chan[c]).id ELSE Head(chan[c]).fileId)]_vars

\* ------------------------------------------------------------------- C5
\* C5 as claimed: for an id that was never announced the registry holds no
\* buffer and the host holds no artifact.
C5_UnannouncedDropped ==
  \A id \in Ids : id \notin DOMAIN announced =>
     /\ id \notin DOMAIN incomingBuffer
     /\ Artifacts(id) = {}

\* C5 as amended: part_001 admits the chunks of an id that was never
\* announced into a degraded buffer (name "Unknown File", size 0) and logs a
\* warning for that id; what a finish builds from it is named
\* "Unknown File" and holds the chunks received, at least one.
C5_UnannouncedDegraded ==
  \A id \in Ids : id \notin DOMAIN announced =>
     /\ id \in DOMAIN incomingBuffer =>
          /\ incomingBuffer[id].name = "Unknown File"
          /\ incomingBuffer[id].size = 0
          /\ incomingBuffer[id].chunks # <<>>
          /\ AnomalyLogged(host.logs, id)
     /\ \A i \in DOMAIN host.files : host.files[i].id = id =>
          /\ host.files[i].name = "Unknown File"
          /\ blobSize(host.files[i].url) > 0
          /\ AnomalyLogged(host.logs, id)

\* a finish has built an artifact from the chunks of an id never announced
C5_Witness ==
  /\ design = "stream"
  /\ \E id \in Ids : /\ id \notin DOMAIN announced
                     /\ \E i \in DOMAIN host.files :
                          host.files[i].id = id /\ host.files[i].name = "Unknown File"

\* ------------------------------------------------------------------- C6
\* a send loop emitted a chunk in this step
ChunkEmitted ==
  /\ Len(loops') = Len(loops)
  /\ \E i \in DOMAIN loops : loops'[i].offset > loops[i].offset

\* C6: no chunk is emitted while the channel's buffered-byte count is above
\* the high-water mark.
C6_BackpressureGate == [][ChunkEmitted => bufferedAmount <= HIGH_WATER]_vars

\* ------------------------------------------------------------------- C7
\* C7: once the connection of a transfer has closed at the host, the
\* registry holds no buffer for it and the host does not show it as
\* receiving.
C7_AbandonedOnClose ==
  \A id \in DOMAIN announced :
     (\A a \in announced[id] : link[a.conn].h = "closed") =>
        /\ id \notin DOMAIN incomingFilesRef
        /\ id \notin DOMAIN incomingBuffer
        /\ \A i \in DOMAIN host.files :
              host.files[i].id = id => host.files[i].status # "receiving"

\* ------------------------------------------------------------------- C8
\* C8: the sender never calls send() on a connection that is not open; in
\* particular it sends no finish message after the close.
C8_NoSendAfterClose == \A m \in sent : m.open

\* ------------------------------------------------------------------- C9
\* what the sender view renders
senderView ==
  [connected |-> sender.conn # "null", sendingState |-> sender.sendingState,
   uploadProgress |-> sender.uploadProgress, currentFileName |-> sender.currentFileName,
   logs |-> sender.logs]

\* C9: the step in which a send loop gives up because the connection is not
\* open reports it: something the sender view shows changes.
C9_AbortReported == [][aborted' # aborted => senderView' # senderView]_vars

\* ------------------------------------------------------------------ C10
\* the sender's data handler takes an acknowledgement
ackHandled ==
  /\ design = "ack"
  /\ link' = link /\ isOpen(AppConn)
  /\ back[AppConn] # <<>>
  /\ back'[AppConn] = Tail(back[AppConn])
  /\ Head(back[AppConn]).type = "ACK"

\* the id of the announce the sender waits for
awaitedIds ==
  IF sender.sendingState = "waiting_ack" /\ sends # <<>> THEN {sends[Len(sends)]} ELSE {}

\* C10: an acknowledgement whose id is not the id of the announce the
\* sender waits for starts no send loop and does not move it to 'sending'.
C10_HandshakeGating ==
  [][(ackHandled /\ Head(back[AppConn]).id \notin awaitedIds)
       => /\ Len(loops') <= Len(loops)
          /\ (sender'.sendingState = "sending" => sender.sendingState = "sending")]_vars

\* ------------------------------------------------------------------ C11
\* the host's data handler takes an announce for id
announceHandled(id) ==
  \E c \in Conns :
     /\ hostHandles(c)
     /\ Head(chan[c]).type \in {"HEADER", "file-start"}
     /\ id = (IF design = "ack" THEN Head(chan[c]).id ELSE Head(chan[c]).fileId)

\* the cards the host shows for an id (part_000)
CardsOf(files, id) == {i \in DOMAIN files : files[i].id = id}

\* within one transfer the byte count of its buffer never goes down
C11_ReceivedNonDecreasing ==
  [][\A id \in DOMAIN incomingFilesRef \cap DOMAIN incomingFilesRef' :
       ~announceHandled(id) =>
          incomingFilesRef'[id].receivedBytes >= incomingFilesRef[id].receivedBytes]_vars

\* C11: the receiver's receivedBytes of a transfer never decreases during
\* the transfer, and it equals the announced size only when the transfer
\* is COMPLETE (its card is shown completed).
C11_ProgressMonotone ==
  [][\A id \in DOMAIN incomingFilesRef :
       /\ (id \in DOMAIN incomingFilesRef' /\ ~announceHandled(id)) =>
             incomingFilesRef'[id].receivedBytes >= incomingFilesRef[id].receivedBytes
       /\ incomingFilesRef[id].receivedBytes = incomingFilesRef[id].size =>
             \E i \in CardsOf(host.files, id) : host.files[i].status = "completed"]_vars

\* ------------------------------------------------------------------ C12
\* sum(len(c) for c in chunks)
RECURSIVE sumBytes(_)
sumBytes(chunks) ==
  IF chunks = <<>> THEN 0 ELSE byteLength(Head(chunks)) + sumBytes(Tail(chunks))

\* C12: for every buffer the registry of the receiver holds, receivedBytes
\* is the sum of the byte lengths of the chunks the buffer holds.
C12_BufferInvariant ==
  /\ \A id \in DOMAIN incomingFilesRef :
        incomingFilesRef[id].receivedBytes = sumBytes(incomingFilesRef[id].chunks)
  /\ \A id \in DOMAIN incomingBuffer :
        incomingBuffer[id].received = sumBytes(incomingBuffer[id].chunks)

\* ------------------------------------------------------------------ C13
\* C13: when the finish message of an announced transfer of 0 bytes is
\* handled, the receiver completes the transfer: it holds an artifact of
\* length 0 for it and reports no failure.
C13_ZeroByteCompletes ==
  [][\A c \in Conns :
       (/\ hostHandles(c)
        /\ Head(chan[c]).type = "file-end"
        /\ Head(chan[c]).fileId \in DOMAIN incomingBuffer
        /\ incomingBuffer[Head(chan[c]).fileId].size = 0
        /\ incomingBuffer[Head(chan[c]).fileId].received = 0)
       => /\ \E i \in DOMAIN host'.files :
                /\ host'.files[i].id = Head(chan[c]).fileId
                /\ blobSize(host'.files[i].url) = 0
          /\ LogLine("CRITICAL: Buffer empty. Transfer failed.", Head(chan[c]).fileId)
                \notin host'.logs]_vars

\* ------------------------------------------------------------------ C19
\* C19: once the host holds the artifact of a transfer, the registry holds
\* no entry (no chunk data, no bookkeeping) for that transfer's id.
C19_ReleasedOnCompletion ==
  \A id \in Ids : Artifacts(id) # {} =>
     /\ id \notin DOMAIN incomingFilesRef
     /\ id \notin DOMAIN incomingBuffer

\* ------------------------------------------------------------------ C14
\* C14: a transfer of N > 0 bytes whose blocks arrive in order, followed by
\* the finish message, is completed exactly once: the receiver reports
\* progress up to 100%, holds one artifact for it, of N bytes, and reports
\* success.
C14_CompletionScenario ==
  (codec.phase = "done" /\ codec.file.size > 0) =>
    /\ LogLine("Receiving", "100") \in codec.logs
    /\ LogLine("SUCCESS: File ready.", CodecId) \in codec.logs
    /\ LogLine("CRITICAL: Buffer empty. Transfer failed.", CodecId) \notin codec.logs
    /\ Len(codec.files) = 1
    /\ codec.files[1].id = CodecId
    /\ blobSize(codec.files[1].url) = codec.file.size

\* a file of 10 * 16384 + 7 bytes sent in blocks of 16384 bytes is complete
C14_Witness ==
  /\ codec.phase = "done"
  /\ codec.chunkSize = CHUNK_SIZE
  /\ codec.file.size = 10 * CHUNK_SIZE + 7
  /\ Len(codec.files) = 1

\* ------------------------------------------------------------------ C20
RECURSIVE sumSeq(_)
sumSeq(q) == IF q = <<>> THEN 0 ELSE Head(q) + sumSeq(Tail(q))

\* C20: when the send loop has reached the end of a file of N bytes, it has
\* emitted ceil(N / c) blocks, each of c bytes except the last, which has
\* N mod c bytes (c when N is a positive multiple of c), N bytes in all.
C20_ChunkSizes ==
  codec.phase \in {"ended", "done"} =>
    LET N == codec.file.size
        c == codec.chunkSize
        e == codec.emitted
        k == Len(e)
    IN /\ k = (N + c - 1) \div c
       /\ \A i \in 1..(k - 1) : e[i] = c
       /\ k > 0 => e[k] = (IF N % c = 0 THEN c ELSE N % c)
       /\ sumSeq(e) = N

\* a file of 16385 bytes has been sent as a block of 16384 bytes and one of 1 byte
C20_Witness ==
  /\ codec.phase \in {"ended", "done"}
  /\ codec.chunkSize = CHUNK_SIZE
  /\ codec.file.size = CHUNK_SIZE + 1
  /\ codec.emitted = <<CHUNK_SIZE, 1>>

\* ------------------------------------------------------------------ C15
\* the sender has reached the end of a file and shows the transfer as done
senderDone ==
  \/ sender.sendingState = "done"
  \/ LogLine("Upload Complete. Sending END signal.", "") \in sender.logs

\* the ids of the announces the sender sent
sentIds == {sends[i] : i \in DOMAIN sends}

\* C15: a sender that is DONE has sent the finish message of a transfer it
\* announced, and every finish message it sent comes after the announce of
\* its id.
C15_FinishBeforeDone ==
  /\ senderDone => \E m \in sent : m.type = "file-end" /\ m.id \in sentIds
  /\ \A m \in sent : m.type = "file-end" =>
        \E a \in sent : a.type \in {"file-start", "HEADER"} /\ a.id = m.id

\* ------------------------------------------------------------------ C17
\* the sender's user has left the sender view with the Disconnect button
senderExited == sender.role = "home" /\ link[AppConn].s \in {"open", "closed"}

\* C17: after the sender's Disconnect the connection is closed, no send
\* loop of the old connection runs and nothing more is sent on it.
C17_ExitCancels ==
  [][senderExited =>
       /\ ~isOpen(AppConn)
       /\ loops' = loops
       /\ Len(chan'[AppConn]) <= Len(chan[AppConn])]_vars

LargeFile == FileOf(4 * 1024 * 1024)

\* what the user selects: the large file first, an empty file after it
NextFile == IF sends = <<>> THEN LargeFile ELSE FileOf(0)

NextLarge ==
  \/ connectToHost
  \/ \E level \in BufferedLevels : connectionOnOpen(level)
  \/ senderOnClose
  \/ disconnect
  \/ \E fileId \in Ids : sendFile(NextFile, fileId)
  \/ \E i \in DOMAIN loops : sendNextChunk(i)
  \/ \E i \in DOMAIN loops : streamReaderOnload(i)
  \/ streamResetTimeout

SpecLarge == InitStream /\ [][NextLarge]_vars

\* ------------------------------------------------------------------ C16
\* the file input of the sender view is disabled
inputDisabled ==
  \/ sender.conn = "null"
  \/ (IF design = "stream" THEN sender.uploadProgress > 0 ELSE sender.sendingState # "idle")

\* C16: a sender has at most one transfer that is announced and not yet
\* done, and the file input is disabled as long as a transfer is under way.
C16_SingleTransfer ==
  /\ Len(loops) <= 1
  /\ loops # <<>> => inputDisabled

\* ------------------------------------------------------------------ C21
\* the send loop i hands a chunk to the channel in this step
emits(i) ==
  /\ Len(loops') = Len(loops)
  /\ i \in DOMAIN loops
  /\ loops'[i].offset > loops[i].offset

\* C21: the chunks of a transfer are emitted at the offsets 0, c, 2c, ...,
\* each offset once: a chunk is emitted by a loop whose read is complete,
\* the offset advances by c, the next read starts in a later step, and no
\* chunk of the same transfer at this or a later offset has been emitted
\* before.
C21_StrictOffsetOrder ==
  [][\A i \in DOMAIN loops : emits(i) =>
       /\ loops[i].pc = "reading" /\ loops'[i].pc = "timer"
       /\ loops[i].offset % CHUNK_SIZE = 0
       /\ loops'[i].offset = loops[i].offset + CHUNK_SIZE
       /\ \A j \in DOMAIN loops \ {i} :
             loops[j].fileId = loops[i].fileId => loops[j].offset <= loops[i].offset]_vars

\* the same without the comparison with other loops: the order within one
\* closure of the send loop
C21_OrderWithinLoop ==
  [][\A i \in DOMAIN loops : emits(i) =>
       /\ loops[i].pc = "reading" /\ loops'[i].pc = "timer"
       /\ loops[i].offset % CHUNK_SIZE = 0
       /\ loops'[i].offset = loops[i].offset + CHUNK_SIZE]_vars

\* ------------------------------------------------------------------ C22
\* part_000 with the host and the sender of this program alone: no other
\* peer dials the host
NextAckApp ==
  \/ startHosting
  \/ peerOnOpen
  \/ peerOnConnection(AppConn)
  \/ connectToHost
  \/ \E level \in BufferedLevels : connectionOnOpen(level)
  \/ senderOnClose
  \/ disconnect
  \/ \E tick \in Ticks : handleIncomingData(AppConn, tick)
  \/ ackOnClose(AppConn)
  \/ ackDestroyHost
  \/ \E file \in UserFiles, fileId \in Ids : initiateSend(file, fileId)
  \/ \E level \in BufferedLevels : senderOnData(level)
  \/ \E i \in DOMAIN loops, level \in BufferedLevels : sendLoopTimer(i, level)
  \/ \E i \in DOMAIN loops : ackReaderOnload(i)
  \/ ackResetTimeout

SpecAckApp == InitAck /\ [][NextAckApp]_vars

\* the host's data handler takes a CHUNK of connection c for a transfer it
\* holds a buffer for
chunkHandled(c) ==
  /\ design = "ack"
  /\ hostHandles(c)
  /\ Head(chan[c]).type = "CHUNK"
  /\ Head(chan[c]).id \in DOMAIN incomingFilesRef

\* the progress shown for id changes in this step
progressUpdated(id) ==
  \E i \in CardsOf(host.files, id) : host'.files[i].progress # host.files[i].progress

buffers == IF design = "stream" THEN incomingBuffer ELSE incomingFilesRef

\* C23: an announce for an id that was announced before and is still held changes
\* neither the name, size and type held for the id nor the bytes and chunks
\* received so far.
C23_AnnounceKeepsBuffer ==
  [][\A id \in DOMAIN buffers : (AnnouncedOf(id) # {} /\ announceHandled(id)) =>
       /\ id \in DOMAIN buffers'
       /\ buffers'[id].name = buffers[id].name
       /\ buffers'[id].size = buffers[id].size
       /\ buffers'[id].type = buffers[id].type
       /\ buffers'[id].chunks = buffers[id].chunks
       /\ (IF design = "stream"
           THEN buffers'[id].received = buffers[id].received
           ELSE buffers'[id].receivedBytes = buffers[id].receivedBytes)]_vars

\* ------------------------------------------------------------------ C24
\* C24: every chunk and finish message the sender sends carries the id of
\* an announce it sent, and a send loop runs under the id of such an
\* announce.
C24_IdRoundTrip ==
  /\ \A m \in sent : m.type \notin {"HEADER", "file-start"} => m.id \in sentIds
  /\ \A i \in DOMAIN loops : loops[i].fileId \in sentIds

\* ------------------------------------------------------------------ C25
\* a timeout that was set fires: the page keeps running its timers
SpecStreamFair == SpecStream /\ WF_vars(streamResetTimeout)

SpecAckAppFair == SpecAckApp /\ WF_vars(ackResetTimeout)

\* a send loop has reached the end of its file: the sender shows the
\* transfer as done and the reset is scheduled
transferDone ==
  IF design = "stream" THEN resetTimers > 0 ELSE sender.sendingState = "done"

\* the sender view shows no transfer
senderIdle ==
  /\ sender.uploadProgress = 0
  /\ sender.currentFileName = ""
  /\ design = "ack" => sender.sendingState = "idle"

senderAtRest ==
  /\ link[AppConn].s = "closed"
  /\ loops = <<>>
  /\ resetTimers = 0

\* C26: a sender whose connection closed returns to idle: once nothing of
\* the abandoned transfer is pending any more, it is not in waiting_ack or
\* sending (part_000) and shows no upload in progress (part_001).
C26_IdleAfterClose ==
  senderAtRest =>
     IF design = "ack" THEN sender.sendingState \in {"idle", "done"}
     ELSE sender.uploadProgress = 0

\* ------------------------------------------------------------------ C27
\* the host's data handler takes a HEADER of connection c
headerHandled(c) ==
  /\ design = "ack"
  /\ hostHandles(c)
  /\ Head(chan[c]).type = "HEADER"

C29_OneLoopPerSender ==
  [][/\ Len(loops') <= 1
     /\ (ackHandled /\ sender.sendingState # "waiting_ack")
           => (loops' = loops /\ sender' = sender)]_vars

\* ------------------------------------------------------------------ C30
\* the host's close handler runs for connection c while the host goes on
hostCloses(c) ==
  /\ link[c].h = "open" /\ link'[c].h = "closed"
  /\ hostPeer' = hostPeer

\* C30: with two connections open at the host, the close of one leaves the
\* buffer of every transfer announced on the other as it is.
C30_CloseLeavesOtherTransfers ==
  [][\A c \in Conns : (hostCloses(c) /\ \A o \in Conns : link[o].h = "open") =>
       \A id \in DOMAIN buffers :
          (AnnouncedOf(id) # {} /\ \A a \in AnnouncedOf(id) : a.conn # c)
             => (id \in DOMAIN buffers' /\ buffers'[id] = buffers[id])]_vars

\* ------------------------------------------------------------------ C28
\* The channel's pending-send byte count followed byte by byte: in this
\* specification bufferedAmount is what the send loop's calls of send() have
\* put on the channel, and the transport hands nothing on while the loops
\* run (a stalled receiver, the case in which the queue is longest), so no
\* loop reaches the end of the file, which is larger than the mark. The
\* sender has dialled a room name that another program registered.
QueueFile == FileOf(11 * 1024 * 1024)

\* reader.onload of startStreamingFile, with the bytes of the chunk counted
\* on the channel
queueReaderOnload(i) ==
  /\ design = "ack"
  /\ i \in DOMAIN loops
  /\ loops[i].pc = "reading"
  /\ LET l == loops[i]
         msg == [type |-> "CHUNK", id |-> l.fileId,
                 chunk |-> chunkAt(l.file, l.offset, CHUNK_SIZE)]
     IN IF ~isOpen(l.conn)
        THEN /\ aborted' = aborted \cup {l.fileId}
             /\ loops' = RemoveAt(loops, i)
             /\ UNCHANGED <<chan, sent, sender, bufferedAmount>>
        ELSE /\ canSend(l.conn)
             /\ chan' = [chan EXCEPT ![l.conn] = connSend(@, l.conn, msg)]
             /\ bufferedAmount' = bufferedAmount + byteLength(msg.chunk)
             /\ sent' = sent \cup {SendCall(msg.type, l.fileId, l.conn)}
             /\ loops' = [loops EXCEPT ![i].offset = @ + CHUNK_SIZE, ![i].pc = "timer"]
             /\ sender' = [sender EXCEPT !.uploadProgress =
                              percentOf(l.offset + CHUNK_SIZE, l.file.size)]
             /\ UNCHANGED aborted
  /\ UNCHANGED <<codec, announced, design, host, hostPeer, link, back, incomingBuffer,
                 incomingFilesRef, resetTimers, sends, foreignSent, foreignAcks, now>>

NextQueue ==
  \/ connectToHost
  \/ \E level \in BufferedLevels : connectionOnOpen(level)
  \/ \E fileId \in ForeignIds : initiateSend(QueueFile, fileId)
  \/ \E id \in ForeignIds : foreignAck(id)
  \/ senderOnData(bufferedAmount)
  \/ \E i \in DOMAIN loops : sendLoopTimer(i, bufferedAmount)
  \/ \E i \in DOMAIN loops : queueReaderOnload(i)

SpecQueue == InitAck /\ [][NextQueue]_vars

\* C28: the channel's pending-send byte count never exceeds the high-water
\* mark of 10 MiB by more than one chunk of 16 KiB.
C28_BoundedSendQueue == bufferedAmount <= HIGH_WATER + CHUNK_SIZE

\* the same for a sender that got one acknowledgement, and so runs one loop
C28_BoundedWithOneLoop == foreignAcks <= 1 => bufferedAmount <= HIGH_WATER + CHUNK_SIZE

\* ------------------------------------------------------------------ C31
\* the cards of the host's file list for id, in list order; part_001 adds a
\* card only for a finished file, part_000 marks it 'completed'
cardsFor(files, id) ==
  LET ofId(card) == card.id = id
  IN SelectSeq(files, ofId)

completedFor(files, id) ==
  LET done(card) == card.id = id /\ (design = "stream" \/ card.status = "completed")
  IN SelectSeq(files, done)

\* C31: once the host shows a completed transfer with its artifact, no
\* message it handles afterwards changes that card (artifact, status,
\* progress) or adds another card for the same id.
C31_CompletedStable ==
  [][\A c \in Conns : hostHandles(c) =>
       \A id \in Ids :
          completedFor(host.files, id) # <<>>
             => cardsFor(host'.files, id) = completedFor(host.files, id)]_vars

\* ------------------------------------------------------------------ C32
\* C32: in the file list of the part_000 host every transfer id has at most
\* one card; a 'completed' card has progress 100 and a download URL; a
\* 'receiving' card has no URL and a progress within 0..100.
C32_CardInvariant ==
  design = "ack" =>
     /\ \A i, j \in DOMAIN host.files : host.files[i].id = host.files[j].id => i = j
     /\ \A i \in DOMAIN host.files :
           LET f == host.files[i]
           IN /\ f.status \in {"receiving", "completed"}
              /\ f.status = "completed" => (f.progress = 100 /\ f.url # <<>>)
              /\ f.status = "receiving" => (f.url = <<>> /\ f.progress \in 0..100)

\* the conditions on the fields of the cards, as long as every id has one card
C32_CardFields ==
  (design = "ack" /\ \A i, j \in DOMAIN host.files : host.files[i].id = host.files[j].id => i = j)
     => \A i \in DOMAIN host.files :
           LET f == host.files[i]
           IN /\ f.status \in {"receiving", "completed"}
              /\ f.status = "completed" => (f.progress = 100 /\ f.url # <<>>)
              /\ f.status = "receiving" => (f.url = <<>> /\ f.progress \in 0..100)

\* ------------------------------------------------------------------ C33
\* C33: while one transfer runs, the percentage the sender shows after a
\* chunk is within 0..100 and not below the percentage shown before it.
C33_SenderPercentage ==
  [][\A i \in DOMAIN loops : (emits(i) /\ Len(loops) = 1) =>
       /\ sender'.uploadProgress \in 0..100
       /\ sender'.uploadProgress >= sender.uploadProgress]_vars

\* ------------------------------------------------------------------ C34
\* A host and a sender of this program over a channel that stays open: no
\* close, no Disconnect, no Stop Hosting; the user sends files of N > 0
\* bytes.
PositiveFiles == {FileOf(n) : n \in FileSizes \ {0}}

NextLiveAck ==
  \/ startHosting
  \/ peerOnOpen
  \/ peerOnConnection(AppConn)
  \/ connectToHost
  \/ \E level \in BufferedLevels : connectionOnOpen(level)
  \/ \E tick \in Ticks : handleIncomingData(AppConn, tick)
  \/ \E file \in PositiveFiles, fileId \in Ids : initiateSend(file, fileId)
  \/ \E level \in BufferedLevels : senderOnData(level)
  \/ \E i \in DOMAIN loops, level \in BufferedLevels : sendLoopTimer(i, level)
  \/ \E i \in DOMAIN loops : ackReaderOnload(i)
  \/ ackResetTimeout

\* the host's data handler can run on the application's connection: the
\* guard of handleIncomingData, whose branches are all total
hostCanHandle ==
  /\ design = "ack"
  /\ link[AppConn].h = "open"
  /\ chan[AppConn] # <<>>
  /\ Len(back[AppConn]) < MaxInFlight

\* The channel delivers what was sent (both data handlers run), timers and
\* file reads call back, and the buffered-byte count is at or below the
\* mark infinitely often when the loop looks at it.  The first condition
\* is weak fairness of the host's data handler, written out with its guard
\* in the place of ENABLED.
SpecLiveAck ==
  /\ InitAck /\ [][NextLiveAck]_vars
  /\ \/ []<>(~hostCanHandle)
     \/ []<><<\E tick \in Ticks : handleIncomingData(AppConn, tick)>>_vars
  /\ WF_vars(\E level \in BufferedLevels : senderOnData(level))
  /\ WF_vars(\E i \in DOMAIN loops, level \in BufferedLevels : sendLoopTimer(i, level))
  /\ SF_vars(\E i \in DOMAIN loops : sendLoopTimer(i, HIGH_WATER))
  /\ WF_vars(\E i \in DOMAIN loops : ackReaderOnload(i))
  /\ WF_vars(ackResetTimeout)

NextLiveStream ==
  \/ startHosting
  \/ peerOnOpen
  \/ peerOnConnection(AppConn)
  \/ connectToHost
  \/ \E level \in BufferedLevels : connectionOnOpen(level)
  \/ streamOnData(AppConn)
  \/ \E file \in PositiveFiles, fileId \in Ids : sendFile(file, fileId)
  \/ \E i \in DOMAIN loops : sendNextChunk(i)
  \/ \E i \in DOMAIN loops : streamReaderOnload(i)
  \/ streamResetTimeout

SpecLiveStream ==
  /\ InitStream /\ [][NextLiveStream]_vars
  /\ WF_vars(streamOnData(AppConn))
  /\ WF_vars(\E i \in DOMAIN loops : sendNextChunk(i))
  /\ WF_vars(\E i \in DOMAIN loops : streamReaderOnload(i))
  /\ WF_vars(streamResetTimeout)

\* the sender has begun a transfer and has not reached the end of the file
inTransfer ==
  IF design = "stream" THEN loops # <<>>
  ELSE sender.sendingState \in {"waiting_ack", "sending"}

\* the number of cards the host shows as completed
completedCount ==
  LET done(card) == design = "stream" \/ card.status = "completed"
  IN Len(SelectSeq(host.files, done))

MaxNameLen == 4
NameChars == {"A", "a", " ", "\t", "-"}
WhiteSpace == {" ", "\t"}

RECURSIVE NamesUpTo(_)
NamesUpTo(n) ==
  IF n = 0 THEN {<<>>}
  ELSE LET shorter == NamesUpTo(n - 1)
       IN shorter \cup {Append(w, ch) : w \in {x \in shorter : Len(x) = n - 1}, ch \in NameChars}

\* String.prototype.trim
RECURSIVE trimStart(_)
trimStart(str) ==
  IF str # <<>> /\ Head(str) \in WhiteSpace THEN trimStart(Tail(str)) ELSE str

RECURSIVE trimEnd(_)
trimEnd(str) ==
  IF str # <<>> /\ str[Len(str)] \in WhiteSpace
  THEN trimEnd(SubSeq(str, 1, Len(str) - 1)) ELSE str

trim(str) == trimEnd(trimStart(str))

\* String.prototype.toLowerCase
toLowerCase(str) == [i \in DOMAIN str |-> IF str[i] = "A" THEN "a" ELSE str[i]]

\* str.replace(/\s+/g, '-'): every run of white space becomes one hyphen
RECURSIVE replaceRuns(_)
replaceRuns(str) ==
  IF str = <<>> THEN <<>>
  ELSE IF Head(str) \in WhiteSpace
  THEN <<"-">> \o replaceRuns(trimStart(str))
  ELSE <<Head(str)>> \o replaceRuns(Tail(str))

\* the id startHosting registers
cleanIdOf(customId) == toLowerCase(replaceRuns(trim(customId)))

\* a dialled id for which the name is not trimmed
dialledIdUntrimmed(targetId) == replaceRuns(toLowerCase(targetId))

\* the id connectToHost dials
dialledIdOf(targetId) == replaceRuns(toLowerCase(trim(targetId)))

\* the user of the host and the user of the sender have typed the same name
InitNames ==
  /\ design = "names"
  /\ InitCommon
  /\ \E name \in NamesUpTo(MaxNameLen) :
       codec = [phase |-> "typed", first |-> name, customId |-> name, targetId |-> name,
                cleanId |-> <<>>, dialled |-> <<>>, error |-> ""]

\* startHosting up to new Peer(cleanId)
nameStartHosting ==
  /\ design = "names"
  /\ codec.cleanId = <<>> /\ codec.error = ""
  /\ codec' = IF codec.customId = <<>>
              THEN [codec EXCEPT !.error = "Please enter a name for your shop."]
              ELSE [codec EXCEPT !.cleanId = <<cleanIdOf(codec.customId)>>]
  /\ UNCHANGED sysVars

\* connectToHost up to peer.connect(...)
nameConnectToHost ==
  /\ design = "names"
  /\ codec.dialled = <<>>
  /\ codec.targetId # <<>>
  /\ codec' = [codec EXCEPT !.dialled = <<dialledIdOf(codec.targetId)>>]
  /\ UNCHANGED sysVars

\* both users type the registered id as the name and start again
nameRetype ==
  /\ design = "names"
  /\ codec.phase = "typed"
  /\ codec.cleanId # <<>> /\ codec.dialled # <<>>
  /\ codec' = [codec EXCEPT !.phase = "retyped", !.customId = codec.cleanId[1],
                            !.targetId = codec.cleanId[1], !.cleanId = <<>>, !.dialled = <<>>]
  /\ UNCHANGED sysVars

NextNames == nameStartHosting \/ nameConnectToHost \/ nameRetype

SpecNames == InitNames /\ [][NextNames]_vars

\* ------------------------------------------------------------------ C35
\* C35: for the same typed name the id the host registers equals the id the
\* sender dials, and a name that is already an id is registered and dialled
\* unchanged.
C35_NamesAgree ==
  design = "names" =>
     /\ (codec.cleanId # <<>> /\ codec.dialled # <<>>) => codec.cleanId = codec.dialled
     /\ (codec.phase = "retyped" /\ codec.cleanId # <<>>) => codec.cleanId[1] = codec.customId
     /\ (codec.phase = "retyped" /\ codec.dialled # <<>>) => codec.dialled[1] = codec.targetId

\* a name with an upper-case letter and a run of two white-space characters
\* was registered, dialled, and typed again as the id
C35_Witness ==
  /\ design = "names"
  /\ codec.phase = "retyped"
  /\ codec.first = <<"A", " ", "\t", "a">>
  /\ codec.cleanId = << <<"a", "-", "a">> >>
  /\ codec.dialled = codec.cleanId

\* ========================================================= start of hosting
\* The home view with its two buttons, the registrations at the broker and
\* the role of the application, without the transfers.  The three
\* applications differ in the texts they set; app names the one that runs.
MaxPeers == 2
Apps == {"part_000", "part_001", "App.jsx"}
HostNames == {<<>>, <<"A">>, <<" ">>, <<"a", " ">>}
ErrorTypes == {"unavailable-id", "server-error"}
EmptyNameError == "Please enter a name for your shop."
StartingStatus ==
  [a \in Apps |-> CASE a = "part_000" -> "Starting Host..."
                    [] a = "part_001" -> "Initializing..."
                    [] OTHER -> "Registering Name..."]
OnlineStatus ==
  [a \in Apps |-> IF a = "part_000" THEN "Online" ELSE "Online & Waiting"]

\* new Peer(id): an empty id is replaced by one the broker chooses
brokerId(cleanId) == IF cleanId = <<>> THEN <<"r">> ELSE cleanId

InitHosting ==
  /\ design = "hosting"
  /\ InitCommon
  /\ \E a \in Apps :
       codec = [phase |-> "hosting", app |-> a, customId |-> <<>>, role |-> "home",
                error |-> "", status |-> "", peerId |-> <<>>, peers |-> <<>>,
                dial |-> "new"]

\* onChange of the room-name input of the home view
setCustomId(name) ==
  /\ design = "hosting"
  /\ codec.role = "home"
  /\ codec.customId # name
  /\ codec' = [codec EXCEPT !.customId = name]
  /\ UNCHANGED sysVars

\* startHosting: the Start button of the home view, which is never disabled
hostingStart ==
  /\ design = "hosting"
  /\ codec.role = "home"
  /\ IF codec.customId = <<>>
     THEN codec' = [codec EXCEPT !.error = EmptyNameError]
     ELSE /\ Len(codec.peers) < MaxPeers
          /\ codec' = [codec EXCEPT
                 !.status = StartingStatus[codec.app],
                 !.error = "",
                 !.peers = Append(@, [id |-> brokerId(cleanIdOf(codec.customId)),
                                      state |-> "pending"])]
  /\ UNCHANGED sysVars

\* peer.on('open') of a registration: the broker holds no id twice
hostingOnOpen(i) ==
  /\ design = "hosting"
  /\ codec.peers[i].state = "pending"
  /\ \A j \in DOMAIN codec.peers :
        codec.peers[j].state = "open" => codec.peers[j].id # codec.peers[i].id
  /\ codec' = [codec EXCEPT !.peers[i].state = "open",
                            !.peerId = codec.peers[i].id,
                            !.status = OnlineStatus[codec.app],
                            !.role = "host"]
  /\ UNCHANGED sysVars

\* peer.on('error') of a registration; both types end the registration, and
\* the broker refuses no id that it chose itself
hostingOnError(i, type) ==
  /\ design = "hosting"
  /\ codec.peers[i].state = "pending"
  /\ type = "unavailable-id" => codec.peers[i].id # <<"r">>
  /\ codec' = [codec EXCEPT
         !.peers[i].state = type,
         !.error = IF type = "unavailable-id" THEN "is taken"
                   ELSE IF codec.app = "App.jsx" THEN @ ELSE "Error: " \o type,
         !.status = IF codec.app # "App.jsx" THEN @
                    ELSE IF type = "unavailable-id" THEN "" ELSE "Error: " \o type]
  /\ UNCHANGED sysVars

\* connectToHost: the Connect button of the home view
hostingConnectToHost ==
  /\ design = "hosting"
  /\ codec.role = "home"
  /\ codec.dial = "new"
  /\ codec' = [codec EXCEPT !.dial = "dialing",
                            !.status = IF codec.app = "App.jsx"
                                       THEN "Searching for Shop..." ELSE "Connecting..."]
  /\ UNCHANGED sysVars

\* connection.on('open') of the sender
hostingConnectionOnOpen ==
  /\ design = "hosting"
  /\ codec.dial = "dialing"
  /\ codec' = [codec EXCEPT !.dial = "open",
                            !.status = IF codec.app = "App.jsx" THEN "Connected!" ELSE "Connected",
                            !.role = "sender"]
  /\ UNCHANGED sysVars

\* destroyHost: peerEngine holds the registration made last
hostingDestroyHost ==
  /\ design = "hosting"
  /\ codec.role = "host"
  /\ codec' = [codec EXCEPT !.peers[Len(codec.peers)].state = "destroyed",
                            !.role = "home", !.peerId = <<>>, !.customId = <<>>,
                            !.error = IF codec.app = "App.jsx" THEN "" ELSE @]
  /\ UNCHANGED sysVars

NextHosting ==
  \/ \E name \in HostNames : setCustomId(name)
  \/ hostingStart
  \/ \E i \in DOMAIN codec.peers : hostingOnOpen(i)
  \/ \E i \in DOMAIN codec.peers, type \in ErrorTypes : hostingOnError(i, type)
  \/ hostingConnectToHost
  \/ hostingConnectionOnOpen
  \/ hostingDestroyHost

SpecHosting == InitHosting /\ [][NextHosting]_vars

\* ------------------------------------------------------------------ C36
\* startHosting with an empty name sets the error message and nothing else
emptyStartSetsErrorOnly ==
  (hostingStart /\ codec.customId = <<>>) =>
     /\ codec' = [codec EXCEPT !.error = EmptyNameError]
     /\ codec'.role = "home"
     /\ codec'.peers = codec.peers

\* the role becomes host in the open event of a registration only
hostOnlyAfterOpen ==
  (codec.role # "host" /\ codec'.role = "host") =>
     \E i \in DOMAIN codec.peers :
        codec.peers[i].state = "pending" /\ codec'.peers[i].state = "open"

\* after an 'unavailable-id' error the role is home and an error is shown
unavailableLeavesHome ==
  \A i \in DOMAIN codec.peers :
     hostingOnError(i, "unavailable-id") => codec'.role = "home" /\ codec'.error # ""

\* C36: startHosting with an empty name sets the error message and changes
\* nothing else (no registration, role home); the role becomes host only in
\* the open event of a registration; an 'unavailable-id' error leaves the
\* role at home with an error shown.
C36_HostingStartGuard ==
  [][design = "hosting" =>
       emptyStartSetsErrorOnly /\ hostOnlyAfterOpen /\ unavailableLeavesHome]_vars

\* the first two parts of C36
C36_EmptyNameAndOpen ==
  [][design = "hosting" => emptyStartSetsErrorOnly /\ hostOnlyAfterOpen]_vars

\* an 'unavailable-id' error does not change the role
C36_ErrorKeepsRole ==
  [][design = "hosting" =>
       \A i \in DOMAIN codec.peers :
          hostingOnError(i, "unavailable-id") =>
             codec'.role = codec.role /\ codec'.error # ""]_vars

====
